---- MODULE Spec2Model ----
(***************************************************************************)
(* texlint (src/main.py): convert_node_to_dict, the builder that turns a   *)
(* pylatexenc node tree into nested dicts, and lint_table, the table lint  *)
(* over such a dict.                                                       *)
(*                                                                         *)
(* Python values are records [py |-> <runtime type name>, v |-> <payload>] *)
(* so that ==, isinstance and attribute lookup can be modelled as Python   *)
(* evaluates them: a str is never equal to a tuple, a tuple never to a     *)
(* list, and only a dict has .get.  A str's payload is its sequence of     *)
(* characters; a dict's payload is a function from its keys.               *)
(***************************************************************************)
EXTENDS Integers, Sequences, FiniteSets, TLC

VARIABLES
    node,        \* the argument of convert_node_to_dict (Unset when lint_table is called directly)
    converted,   \* what convert_node_to_dict returned or raised (Unset before the call)
    table_data,  \* the argument of lint_table (Unset before the call)
    warnings,    \* lint_table's local list
    pc,          \* where the run is
    exc,         \* the exception lint_table ended with ("" when none)
    raised_at    \* the line of main.py that raised it (0 when none)

vars == <<node, converted, table_data, warnings, pc, exc, raised_at>>

-----------------------------------------------------------------------------
(* Bounds of the model *)

\* longest raw text of a Chars node
MaxLen == 3
\* longest argnlist / nodelist of a syntax node
MaxList == 2
\* deepest nesting of syntax nodes below the converted node
MaxDepth == 2

-----------------------------------------------------------------------------
(* Python values *)

PyNone == [py |-> "NoneType", v |-> <<>>]
PyStr(s) == [py |-> "str", v |-> s]
PyTuple(t) == [py |-> "tuple", v |-> t]
PyList(l) == [py |-> "list", v |-> l]
PyDict(d) == [py |-> "dict", v |-> d]
PyBool(b) == [py |-> "bool", v |-> <<b>>]
\* an exception leaving the function
Raised(e) == [py |-> "raise", v |-> <<e>>]
\* no value yet
Unset == [py |-> "unset", v |-> <<>>]

IsRaised(x) == x.py = "raise"

\* Python's == on the values of the model
PyEq(a, b) == a.py = b.py /\ a.v = b.v

\* the string literals of main.py, as character sequences
GroupNodeS == <<"G", "r", "o", "u", "p", "N", "o", "d", "e">>
MacroNodeS == <<"M", "a", "c", "r", "o", "N", "o", "d", "e">>
CharsNodeS == <<"C", "h", "a", "r", "s", "N", "o", "d", "e">>
CommentNodeS == <<"C", "o", "m", "m", "e", "n", "t", "N", "o", "d", "e">>
EnvironmentNodeS == <<"E", "n", "v", "i", "r", "o", "n", "m", "e", "n", "t", "N", "o", "d", "e">>
SpecialsNodeS == <<"S", "p", "e", "c", "i", "a", "l", "s", "N", "o", "d", "e">>
MathNodeS == <<"M", "a", "t", "h", "N", "o", "d", "e">>
UnknownPrefix == <<"U", "n", "k", "n", "o", "w", "n", ";">>
BeginTable == <<"\\", "b", "e", "g", "i", "n", "{", "t", "a", "b", "l", "e", "}">>
EndTable == <<"\\", "e", "n", "d", "{", "t", "a", "b", "l", "e", "}">>
BeginCenter == <<"\\", "b", "e", "g", "i", "n", "{", "c", "e", "n", "t", "e", "r", "}">>
EndCenter == <<"\\", "e", "n", "d", "{", "c", "e", "n", "t", "e", "r", "}">>
CaptionS == <<"c", "a", "p", "t", "i", "o", "n">>
PosToken == <<"[", "H", "]">>

TableDelimiters == PyTuple(<<PyStr(BeginTable), PyStr(EndTable)>>)
CenterDelimiters == PyTuple(<<PyStr(BeginCenter), PyStr(EndCenter)>>)

-----------------------------------------------------------------------------
(* repr and str, as CPython computes them *)

HasChar(s, c) == \E i \in 1..Len(s) : s[i] = c

\* repr of a str quotes with ' unless the text holds a ' and no "
ReprQuote(s) == IF HasChar(s, "'") /\ ~HasChar(s, "\"") THEN "\"" ELSE "'"

\* ReprChar as it would be were the backslash copied, not doubled
ReprCharKeepBackslash(c, q) ==
    IF c = q THEN <<"\\", c>>
    ELSE IF c = "\n" THEN <<"\\", "n">>
    ELSE IF c = "\t" THEN <<"\\", "t">>
    ELSE IF c = "\r" THEN <<"\\", "r">>
    ELSE <<c>>

\* repr's output for one character of a str quoted with q
ReprChar(c, q) ==
    IF c = "\\" \/ c = q THEN <<"\\", c>>
    ELSE IF c = "\n" THEN <<"\\", "n">>
    ELSE IF c = "\t" THEN <<"\\", "t">>
    ELSE IF c = "\r" THEN <<"\\", "r">>
    ELSE <<c>>

RECURSIVE ReprBody(_, _)
ReprBody(s, q) ==
    IF s = <<>> THEN <<>> ELSE ReprChar(Head(s), q) \o ReprBody(Tail(s), q)

\* repr(s) for a str s (given and returned as character sequences)
Repr(s) == LET q == ReprQuote(s) IN <<q>> \o ReprBody(s, q) \o <<q>>

\* s[1:-1]
StripEnds(s) == SubSeq(s, 2, Len(s) - 1)

\* line 84: repr(node.chars)[1:-1]
EscapedString(chars) == StripEnds(Repr(chars))

\* str(t) for a tuple t of two strs: "(" repr ", " repr ")"
StrOfPair(t) ==
    <<"(">> \o Repr(t.v[1].v) \o <<",", " ">> \o Repr(t.v[2].v) \o <<")">>

-----------------------------------------------------------------------------
(* pylatexenc nodes: py is the node's class, v its attributes *)

ParsedMacroArgs(l) == [py |-> "ParsedMacroArgs", v |-> [argnlist |-> PyList(l)]]
LatexMacroNode(name, nodeargd) ==
    [py |-> "LatexMacroNode", v |-> [macroname |-> PyStr(name), nodeargd |-> nodeargd]]
LatexGroupNode(delimiters, l) ==
    [py |-> "LatexGroupNode", v |-> [delimiters |-> delimiters, nodelist |-> PyList(l)]]
LatexCharsNode(chars) == [py |-> "LatexCharsNode", v |-> [chars |-> PyStr(chars)]]
LatexCommentNode(comment) ==
    [py |-> "LatexCommentNode", v |-> [comment |-> PyStr(comment)]]
LatexEnvironmentNode(name, nodeargd, l) ==
    [py |-> "LatexEnvironmentNode",
     v |-> [environmentname |-> PyStr(name), nodeargd |-> nodeargd, nodelist |-> PyList(l)]]
LatexSpecialsNode(chars, nodeargd) ==
    [py |-> "LatexSpecialsNode", v |-> [specials_chars |-> PyStr(chars), nodeargd |-> nodeargd]]
LatexMathNode(l) == [py |-> "LatexMathNode", v |-> [nodelist |-> PyList(l)]]
\* a node of a class none of the isinstance tests matches: the base class itself
LatexNode == [py |-> "LatexNode", v |-> <<>>]

\* str(type(node)): "<class 'pylatexenc.latexwalker.LatexNode'>"
StrOfType(n) ==
    <<"<", "c", "l", "a", "s", "s", " ", "'">>
    \o <<"p", "y", "l", "a", "t", "e", "x", "e", "n", "c", ".">>
    \o <<"l", "a", "t", "e", "x", "w", "a", "l", "k", "e", "r", ".">>
    \o <<"L", "a", "t", "e", "x", "N", "o", "d", "e">>
    \o <<"'", ">">>

-----------------------------------------------------------------------------
(* convert_node_to_dict *)

\* nodeargd.argnlist: an attribute of None is an AttributeError
ArgnList(nodeargd) ==
    IF nodeargd.py = "NoneType" THEN Raised("AttributeError") ELSE nodeargd.v.argnlist

\* Iterate as it would be were absent entries skipped
IterateSkipNone(l) == SelectSeq(l.v, LAMBDA x : x.py # "NoneType")

\* "for arg in <list>": the entries in list order
Iterate(l) == l.v

\* DelimitersField as it would be were the pair itself stored
DelimitersFieldPair(n) == n.v.delimiters

\* line 77: str(node.delimiters)
DelimitersField(n) == PyStr(StrOfPair(n.v.delimiters))

\* SpecialsArgnList as it would be without the test for an absent descriptor
SpecialsArgnListUnchecked(n) == ArgnList(n.v.nodeargd)

\* lines 101-108: the list a Specials node's args are converted from
SpecialsArgnList(n) ==
    IF n.v.nodeargd.py = "NoneType" THEN PyList(<<>>) ELSE ArgnList(n.v.nodeargd)

\* line 119
UnknownType(n) == PyStr(UnknownPrefix \o StrOfType(n))

RECURSIVE convert_node_to_dict(_)
convert_node_to_dict(n) ==
    LET \* [convert_node_to_dict(x, depth + 1) for x in l]; the first exception leaves it
        Each(l) ==
            IF IsRaised(l) THEN l
            ELSE LET items == Iterate(l)
                     r == [i \in 1..Len(items) |-> convert_node_to_dict(items[i])]
                     bad == {i \in 1..Len(items) : IsRaised(r[i])}
                 IN  IF bad = {} THEN PyList(r)
                     ELSE r[CHOOSE i \in bad : \A j \in bad : i <= j]
    IN
    IF n.py = "NoneType" THEN PyNone
    ELSE IF n.py = "LatexMacroNode" THEN
        LET args == Each(ArgnList(n.v.nodeargd))
        IN  IF IsRaised(args) THEN args
            ELSE PyDict([type |-> PyStr(MacroNodeS), macroname |-> n.v.macroname, args |-> args])
    ELSE IF n.py = "LatexGroupNode" THEN
        LET children == Each(n.v.nodelist)
        IN  IF IsRaised(children) THEN children
            ELSE PyDict([type |-> PyStr(GroupNodeS), delimiters |-> DelimitersField(n),
                         children |-> children])
    ELSE IF n.py = "LatexCharsNode" THEN PyStr(EscapedString(n.v.chars.v))
    ELSE IF n.py = "LatexCommentNode" THEN
        PyDict([type |-> PyStr(CommentNodeS), comment |-> n.v.comment])
    ELSE IF n.py = "LatexEnvironmentNode" THEN
        LET args == Each(ArgnList(n.v.nodeargd))
            children == Each(n.v.nodelist)
        IN  IF IsRaised(args) THEN args
            ELSE IF IsRaised(children) THEN children
            ELSE PyDict([type |-> PyStr(EnvironmentNodeS),
                         environmentname |-> n.v.environmentname,
                         args |-> args, children |-> children])
    ELSE IF n.py = "LatexSpecialsNode" THEN
        LET args == Each(SpecialsArgnList(n))
        IN  IF IsRaised(args) THEN args
            ELSE PyDict([type |-> PyStr(SpecialsNodeS), specials |-> n.v.specials_chars,
                         args |-> args])
    ELSE IF n.py = "LatexMathNode" THEN
        LET nodelist == Each(n.v.nodelist)
        IN  IF IsRaised(nodelist) THEN nodelist
            ELSE PyDict([type |-> PyStr(MathNodeS), nodelist |-> nodelist])
    ELSE PyDict([type |-> UnknownType(n)])

-----------------------------------------------------------------------------
(* The syntax trees convert_node_to_dict is given *)

\* plain character, both quotes, backslash, a control character
Alphabet == {"n", "'", "\"", "\\", "\n"}

ListsOver(S, k) == UNION {[1..j -> S] : j \in 0..k}

Texts == ListsOver(Alphabet, MaxLen)

BraceDelimiters == PyTuple(<<PyStr(<<"{">>), PyStr(<<"}">>)>>)
GroupDelimiters == {BraceDelimiters, TableDelimiters, CenterDelimiters}

Leaves ==
    {PyNone, LatexCharsNode(<<"a", "'">>), LatexCommentNode(<<"c">>), LatexNode}

\* every container node whose one list is drawn from lists
Containers(lists) ==
    {LatexMacroNode(CaptionS, ParsedMacroArgs(l)) : l \in lists}
    \cup {LatexGroupNode(d, l) : d \in GroupDelimiters, l \in lists}
    \cup {LatexEnvironmentNode(<<"t">>, ParsedMacroArgs(l), <<>>) : l \in lists}
    \cup {LatexEnvironmentNode(<<"t">>, ParsedMacroArgs(<<>>), l) : l \in lists}
    \cup {LatexSpecialsNode(<<"~">>, ParsedMacroArgs(l)) : l \in lists}
    \cup {LatexSpecialsNode(<<"~">>, PyNone)}
    \cup {LatexMathNode(l) : l \in lists}

\* nodes the parser never emits: a Macro or Environment without its descriptor
Malformed ==
    {LatexMacroNode(CaptionS, PyNone), LatexEnvironmentNode(<<"t">>, PyNone, <<>>),
     LatexGroupNode(BraceDelimiters, <<LatexMacroNode(CaptionS, PyNone)>>)}

RECURSIVE NestedNodes(_)
NestedNodes(d) ==
    IF d = 0 THEN Leaves
    ELSE LET below == NestedNodes(d - 1)
         IN  below \cup Containers(ListsOver(below, 1))

\* \begin{table}[H] ... as a Group with the table delimiters, a center Group and
\* a caption Macro below it
TableNode ==
    LatexGroupNode(TableDelimiters,
        <<LatexGroupNode(CenterDelimiters, <<>>),
          LatexMacroNode(CaptionS, ParsedMacroArgs(<<LatexCharsNode(<<"A">>)>>))>>)

SyntaxNodes ==
    {LatexCharsNode(t) : t \in Texts}
    \cup Containers(ListsOver(Leaves, MaxList))
    \cup {LatexEnvironmentNode(<<"t">>, ParsedMacroArgs(<<a>>), <<c>>) : a \in Leaves, c \in Leaves}
    \cup NestedNodes(MaxDepth)
    \cup Malformed
    \cup {TableNode}

-----------------------------------------------------------------------------
(* lint_table *)

MsgNotDetected == "Table environment not detected."
MsgPositioning == "Table does not have a [H] positioning directive."
MsgCentering == "Table is not centered using \\begin{center} and \\end{center}."
MsgCaption == "Table does not have a caption using \\caption."

\* only a dict has .get; on a str, None or a list it is an AttributeError
HasGet(x) == x.py = "dict"

\* d.get(k, default); d.get(k) is Get(d, k, PyNone)
Get(d, k, default) == IF k \in DOMAIN d.v THEN d.v[k] ELSE default

\* sub in s, for strs
Contains(s, sub) ==
    \E i \in 0..(Len(s) - Len(sub)) : SubSeq(s, i + 1, i + Len(sub)) = sub

\* GateFails as it would be with "and" for "or"
GateFailsBoth(td) ==
    /\ ~PyEq(Get(td, "type", PyNone), PyStr(GroupNodeS))
    /\ ~PyEq(Get(td, "delimiters", PyNone), TableDelimiters)

\* lines 22-25: the condition of the first if
GateFails(td) ==
    \/ ~PyEq(Get(td, "type", PyNone), PyStr(GroupNodeS))
    \/ ~PyEq(Get(td, "delimiters", PyNone), TableDelimiters)

\* lines 31-33: the condition of the second if, PyBool(..), or the exception
\* its evaluation ends with.  table_data["args"] cannot be a KeyError: the
\* default [{}] has no "type", so the right operand is only evaluated when
\* the key is there.
PositioningCondition(td) ==
    LET args == Get(td, "args", PyList(<<PyDict(<<>>)>>))
    IN  IF args.py \notin {"list", "tuple"} THEN Raised("TypeError")
        ELSE IF Len(args.v) = 0 THEN Raised("IndexError")
        ELSE IF ~HasGet(args.v[1]) THEN Raised("AttributeError")
        ELSE IF ~PyEq(Get(args.v[1], "type", PyNone), PyStr(CharsNodeS)) THEN PyBool(FALSE)
        ELSE LET content == Get(td.v["args"].v[1], "content", PyStr(<<>>))
             IN  IF content.py # "str" THEN Raised("TypeError")
                 ELSE PyBool(~Contains(content.v, PosToken))

\* line 39: the test on one child
IsCenterGroup(child) ==
    /\ PyEq(Get(child, "type", PyNone), PyStr(GroupNodeS))
    /\ PyEq(Get(child, "delimiters", PyNone), CenterDelimiters)

\* line 52: the test on one child
IsCaptionMacro(child) ==
    /\ PyEq(Get(child, "type", PyNone), PyStr(MacroNodeS))
    /\ PyEq(Get(child, "macroname", PyNone), PyStr(CaptionS))

\* table_data.get("children", [])
ChildrenOf(td) == Get(td, "children", PyList(<<>>))

\* lines 37-43: centering_found after the loop, or the exception the loop ends
\* with (child.get on the first child that is no dict)
CenteringFound(td) ==
    LET children == ChildrenOf(td)
    IN  IF children.py \notin {"list", "tuple"} THEN Raised("TypeError")
        ELSE IF \E i \in 1..Len(children.v) : ~HasGet(children.v[i])
             THEN Raised("AttributeError")
        ELSE PyBool(\E i \in 1..Len(children.v) : IsCenterGroup(children.v[i]))

\* lines 50-53: caption_found after the loop, or the exception
CaptionFound(td) ==
    LET children == ChildrenOf(td)
    IN  IF children.py \notin {"list", "tuple"} THEN Raised("TypeError")
        ELSE IF \E i \in 1..Len(children.v) : ~HasGet(children.v[i])
             THEN Raised("AttributeError")
        ELSE PyBool(\E i \in 1..Len(children.v) : IsCaptionMacro(children.v[i]))

-----------------------------------------------------------------------------
(* The dicts lint_table is called with directly *)

\* longest args list of such a dict
MaxArgs == 1
\* longest children list of such a dict
MaxChildren == 2

\* a key the dict does not have
Absent == [py |-> "absent", v |-> <<>>]

Entry(k, x) == IF x.py = "absent" THEN <<>> ELSE k :> x

CharsDict(text) == PyDict([type |-> PyStr(CharsNodeS), content |-> PyStr(text)])
CaptionMacroDict ==
    PyDict([type |-> PyStr(MacroNodeS), macroname |-> PyStr(CaptionS), args |-> PyList(<<>>)])
CenterGroupDict ==
    PyDict([type |-> PyStr(GroupNodeS), delimiters |-> CenterDelimiters, children |-> PyList(<<>>)])
\* an intermediate Group holding a caption Macro and a center Group
WrapperGroupDict ==
    PyDict([type |-> PyStr(GroupNodeS), delimiters |-> BraceDelimiters,
            children |-> PyList(<<CaptionMacroDict, CenterGroupDict>>)])

ArgEntries ==
    {PyNone, PyStr(PosToken), CharsDict(PosToken), CharsDict(<<"h">>),
     PyDict([type |-> PyStr(CharsNodeS)]), WrapperGroupDict}

ChildEntries ==
    {PyNone, PyStr(<<"x">>), CenterGroupDict, CaptionMacroDict, WrapperGroupDict}

\* the types of the seven other variants, and no type at all
OtherRootTypes ==
    {Absent, PyStr(MacroNodeS), PyStr(CharsNodeS), PyStr(CommentNodeS),
     PyStr(EnvironmentNodeS), PyStr(SpecialsNodeS), PyStr(MathNodeS), UnknownType(LatexNode)}

\* the table pair as a tuple, as a list (a decoded JSON array), as the str the
\* builder stores, and another pair
RootDelimiters ==
    {Absent, TableDelimiters, PyList(TableDelimiters.v), PyStr(StrOfPair(TableDelimiters)),
     CenterDelimiters}

\* type and delimiters of a root: a Group with any of the delimiters, another
\* variant without delimiters or with the table pair
RootHeads ==
    ({PyStr(GroupNodeS)} \X RootDelimiters) \cup (OtherRootTypes \X {Absent, TableDelimiters})

OptionalList(S, k) == {Absent} \cup {PyList(l) : l \in ListsOver(S, k)}

Roots ==
    {PyDict(Entry("type", h[1]) @@ Entry("delimiters", h[2]) @@ Entry("args", a)
            @@ Entry("children", c)) :
        h \in RootHeads,
        a \in OptionalList(ArgEntries, MaxArgs), c \in OptionalList(ChildEntries, MaxChildren)}

-----------------------------------------------------------------------------
InitBuilder ==
    /\ node \in SyntaxNodes
    /\ converted = Unset
    /\ table_data = Unset
    /\ warnings = <<>>
    /\ pc = "convert"
    /\ exc = ""
    /\ raised_at = 0

InitLint ==
    /\ node = Unset
    /\ converted = Unset
    /\ table_data \in Roots
    /\ warnings = <<>>
    /\ pc = "gate"
    /\ exc = ""
    /\ raised_at = 0

Init == InitBuilder \/ InitLint

\* convert_node_to_dict(node)
Convert ==
    /\ pc = "convert"
    /\ converted' = convert_node_to_dict(node)
    /\ pc' = "converted"
    /\ UNCHANGED <<node, table_data, warnings, exc, raised_at>>

\* lint_table(table_data) on what the builder returned
CallLint ==
    /\ pc = "converted"
    /\ converted.py \notin {"raise", "NoneType"}
    /\ table_data' = converted
    /\ warnings' = <<>>
    /\ pc' = "gate"
    /\ UNCHANGED <<node, converted, exc, raised_at>>

\* lines 19-27
Gate ==
    /\ pc = "gate"
    /\ IF ~HasGet(table_data)
       THEN /\ pc' = "raised"
            /\ exc' = "AttributeError"
            /\ raised_at' = 22
            /\ UNCHANGED warnings
       ELSE IF GateFails(table_data)
       THEN /\ warnings' = Append(warnings, MsgNotDetected)
            /\ pc' = "returned"
            /\ UNCHANGED <<exc, raised_at>>
       ELSE /\ pc' = "check2"
            /\ UNCHANGED <<warnings, exc, raised_at>>
    /\ UNCHANGED <<node, converted, table_data>>

\* lines 31-34
Check2 ==
    /\ pc = "check2"
    /\ LET cond == PositioningCondition(table_data)
       IN  IF IsRaised(cond)
           THEN /\ pc' = "raised"
                /\ exc' = cond.v[1]
                /\ raised_at' = 31
                /\ UNCHANGED warnings
           ELSE /\ warnings' = IF cond.v[1] THEN Append(warnings, MsgPositioning) ELSE warnings
                /\ pc' = "check3"
                /\ UNCHANGED <<exc, raised_at>>
    /\ UNCHANGED <<node, converted, table_data>>

\* lines 37-47
Check3 ==
    /\ pc = "check3"
    /\ LET found == CenteringFound(table_data)
       IN  IF IsRaised(found)
           THEN /\ pc' = "raised"
                /\ exc' = found.v[1]
                /\ raised_at' = 39
                /\ UNCHANGED warnings
           ELSE /\ warnings' = IF ~found.v[1] THEN Append(warnings, MsgCentering) ELSE warnings
                /\ pc' = "check4"
                /\ UNCHANGED <<exc, raised_at>>
    /\ UNCHANGED <<node, converted, table_data>>

\* lines 50-60
Check4 ==
    /\ pc = "check4"
    /\ LET found == CaptionFound(table_data)
       IN  IF IsRaised(found)
           THEN /\ pc' = "raised"
                /\ exc' = found.v[1]
                /\ raised_at' = 52
                /\ UNCHANGED warnings
           ELSE /\ warnings' = IF ~found.v[1] THEN Append(warnings, MsgCaption) ELSE warnings
                /\ pc' = "returned"
                /\ UNCHANGED <<exc, raised_at>>
    /\ UNCHANGED <<node, converted, table_data>>

Next == Convert \/ CallLint \/ Gate \/ Check2 \/ Check3 \/ Check4

Spec == Init /\ [][Next]_vars

-----------------------------------------------------------------------------
(* What the claims speak of *)

Range(f) == {f[i] : i \in DOMAIN f}

\* lint_table has been called and has ended
LintEnded == pc \in {"returned", "raised"}

\* a Group with the table delimiter pair
IsTableRoot(td) ==
    /\ td.py = "dict"
    /\ PyEq(Get(td, "type", PyNone), PyStr(GroupNodeS))
    /\ PyEq(Get(td, "delimiters", PyNone), TableDelimiters)

\* the root's direct children (none when the key is absent)
DirectChildren(td) == Range(ChildrenOf(td).v)

HasDirectCenter(td) == \E c \in DirectChildren(td) : c.py = "dict" /\ IsCenterGroup(c)
HasDirectCaption(td) == \E c \in DirectChildren(td) : c.py = "dict" /\ IsCaptionMacro(c)

\* Chars text: the bare str the builder produces, or a CharsNode record
IsCharsText(x) ==
    \/ x.py = "str"
    \/ x.py = "dict" /\ PyEq(Get(x, "type", PyNone), PyStr(CharsNodeS))

TextOf(x) == IF x.py = "str" THEN x.v ELSE Get(x, "content", PyStr(<<>>)).v

\* no args field, an empty args list, or a first argument that is not Chars text
NoTextualFirstArg(td) ==
    \/ "args" \notin DOMAIN td.v
    \/ Len(td.v["args"].v) = 0
    \/ ~IsCharsText(td.v["args"].v[1])

\* the positioning directive is missing: no textual first argument, or one without [H]
DirectiveMissing(td) ==
    \/ NoTextualFirstArg(td)
    \/ ~Contains(TextOf(td.v["args"].v[1]), PosToken)

ExampleTwoRoot ==
    PyDict([type |-> PyStr(GroupNodeS), delimiters |-> TableDelimiters,
            args |-> PyList(<<>>), children |-> PyList(<<CenterGroupDict>>)])

\* C2: on a table root with no args field, an empty args list or a first argument
\* that is not Chars text, lint_table's result contains the positioning warning;
\* the root with args [] and a center Group but no caption yields exactly
\* [positioning warning, caption warning]
C2_PositioningDegrades ==
    /\ (IsTableRoot(table_data) /\ NoTextualFirstArg(table_data) /\ LintEnded)
       => pc = "returned" /\ MsgPositioning \in Range(warnings)
    /\ (table_data.py = "dict" /\ PyEq(table_data, ExampleTwoRoot) /\ LintEnded)
       => pc = "returned" /\ warnings = <<MsgPositioning, MsgCaption>>

\* C3: lint_table never ends in an error: whatever node it is given as root, it
\* returns a list of warnings
C3_LintNeverFatal == pc # "raised" /\ exc = ""

\* the messages of the failing checks among 2, 3, 4, in that order
FailingCheckMessages(td) ==
    (IF DirectiveMissing(td) THEN <<MsgPositioning>> ELSE <<>>)
    \o (IF ~HasDirectCenter(td) THEN <<MsgCentering>> ELSE <<>>)
    \o (IF ~HasDirectCaption(td) THEN <<MsgCaption>> ELSE <<>>)

\* C4: the list lint_table returns from a table root is exactly the messages of
\* the failing checks among 2 (positioning), 3 (centering), 4 (caption), each
\* once, in that order, whatever the other checks find
C4_IndependentOrderedChecks ==
    (IsTableRoot(table_data) /\ pc = "returned")
    => warnings = FailingCheckMessages(table_data)

\* C5: on a table root, once checks 3 and 4 are reached (check 2 has not
\* raised), lint_table returns, with the caption warning exactly when no direct
\* child is a caption Macro and the centering warning exactly when no direct
\* child is a center Group; what is nested deeper or sits in args does not count
C5_ShallowSearch ==
    (IsTableRoot(table_data) /\ LintEnded /\ raised_at # 31)
    => /\ pc = "returned"
       /\ MsgCaption \in Range(warnings) <=> ~HasDirectCaption(table_data)
       /\ MsgCentering \in Range(warnings) <=> ~HasDirectCenter(table_data)

\* C6: a table root whose first argument is a Chars value in the builder's form
\* (a bare str) containing [H], with a center Group and a caption Macro among
\* its direct children, gets the empty list
C6_AllChecksPass ==
    (/\ IsTableRoot(table_data)
     /\ "args" \in DOMAIN table_data.v
     /\ Len(table_data.v["args"].v) > 0
     /\ table_data.v["args"].v[1].py = "str"
     /\ Contains(table_data.v["args"].v[1].v, PosToken)
     /\ HasDirectCenter(table_data)
     /\ HasDirectCaption(table_data)
     /\ LintEnded)
    => pc = "returned" /\ warnings = <<>>

\* what does hold of checks 3 and 4: whenever lint_table returns from a table
\* root, the two warnings are decided by the direct children alone
ReturnedListIsShallow ==
    (IsTableRoot(table_data) /\ pc = "returned")
    => /\ MsgCaption \in Range(warnings) <=> ~HasDirectCaption(table_data)
       /\ MsgCentering \in Range(warnings) <=> ~HasDirectCenter(table_data)

\* and the list it returns is a sublist of the three messages in the order 2, 3, 4
ReturnedListIsOrdered ==
    (IsTableRoot(table_data) /\ pc = "returned")
    => \E keep \in SUBSET {MsgPositioning, MsgCentering, MsgCaption} :
          warnings = SelectSeq(<<MsgPositioning, MsgCentering, MsgCaption>>,
                               LAMBDA m : m \in keep)

-----------------------------------------------------------------------------
(* The builder's claims *)

\* the builder has been called on node and has ended
Converted == pc # "convert" /\ node.py # "unset"

\* every Macro and Environment of the tree has its argument descriptor
RECURSIVE WellFormed(_)
WellFormed(n) ==
    LET All(l) == \A i \in 1..Len(l.v) : WellFormed(l.v[i])
    IN  CASE n.py = "LatexMacroNode" ->
                n.v.nodeargd.py # "NoneType" /\ All(n.v.nodeargd.v.argnlist)
          [] n.py = "LatexEnvironmentNode" ->
                /\ n.v.nodeargd.py # "NoneType"
                /\ All(n.v.nodeargd.v.argnlist)
                /\ All(n.v.nodelist)
          [] n.py = "LatexSpecialsNode" ->
                n.v.nodeargd.py = "NoneType" \/ All(n.v.nodeargd.v.argnlist)
          [] n.py \in {"LatexGroupNode", "LatexMathNode"} -> All(n.v.nodelist)
          [] OTHER -> TRUE

\* the keys each record variant carries
VariantKeys(type) ==
    CASE type = MacroNodeS -> {"type", "macroname", "args"}
      [] type = GroupNodeS -> {"type", "delimiters", "children"}
      [] type = CommentNodeS -> {"type", "comment"}
      [] type = EnvironmentNodeS -> {"type", "environmentname", "args", "children"}
      [] type = SpecialsNodeS -> {"type", "specials", "args"}
      [] type = MathNodeS -> {"type", "nodelist"}
      [] type = UnknownPrefix \o StrOfType(LatexNode) -> {"type"}
      [] OTHER -> {}

\* x is one of the eight variants, and so is everything below it: a bare str
\* (Chars), or a record of a known type with that type's keys whose lists hold
\* variants or None
RECURSIVE IsCanonical(_)
IsCanonical(x) ==
    \/ x.py = "str"
    \/ /\ x.py = "dict"
       /\ "type" \in DOMAIN x.v
       /\ x.v["type"].py = "str"
       /\ DOMAIN x.v = VariantKeys(x.v["type"].v)
       /\ \A k \in DOMAIN x.v \cap {"args", "children", "nodelist"} :
             /\ x.v[k].py = "list"
             /\ \A i \in 1..Len(x.v[k].v) :
                   x.v[k].v[i].py = "NoneType" \/ IsCanonical(x.v[k].v[i])

\* the lists of a syntax node, each with the key its conversion is stored under
NodeLists(n) ==
    CASE n.py = "LatexMacroNode" -> {<<n.v.nodeargd.v.argnlist, "args">>}
      [] n.py = "LatexGroupNode" -> {<<n.v.nodelist, "children">>}
      [] n.py = "LatexEnvironmentNode" ->
            {<<n.v.nodeargd.v.argnlist, "args">>, <<n.v.nodelist, "children">>}
      [] n.py = "LatexSpecialsNode" /\ n.v.nodeargd.py # "NoneType" ->
            {<<n.v.nodeargd.v.argnlist, "args">>}
      [] n.py = "LatexMathNode" -> {<<n.v.nodelist, "nodelist">>}
      [] OTHER -> {}

\* a node of no known class occurs in the tree
RECURSIVE HasOtherKind(_)
HasOtherKind(n) ==
    \/ n.py = "LatexNode"
    \/ /\ n.py \notin {"NoneType", "LatexCharsNode", "LatexCommentNode", "LatexNode"}
       /\ \E p \in NodeLists(n) : \E i \in 1..Len(p[1].v) : HasOtherKind(p[1].v[i])

\* an Unknown record occurs in the converted value
RECURSIVE HasUnknown(_)
HasUnknown(x) ==
    /\ x.py = "dict"
    /\ \/ PyEq(x.v["type"], PyStr(UnknownPrefix \o StrOfType(LatexNode)))
       \/ \E k \in DOMAIN x.v \cap {"args", "children", "nodelist"} :
             \E i \in 1..Len(x.v[k].v) : HasUnknown(x.v[k].v[i])

\* C7: on every well-formed tree convert_node_to_dict returns (it does not
\* raise), everything in its result is one of the eight variants, and a node of
\* another class becomes the Unknown record labelled with its type while the
\* tree around it is still converted
C7_BuilderTotal ==
    (Converted /\ WellFormed(node))
    => /\ ~IsRaised(converted)
       /\ converted.py = "NoneType" \/ IsCanonical(converted)
       /\ node.py = "LatexNode" =>
             PyEq(converted, PyDict([type |-> PyStr(UnknownPrefix \o StrOfType(node))]))
       /\ HasOtherKind(node) <=> HasUnknown(converted)

\* C7's case: a Group holding a Math node holding a node of an unknown class
\* has been converted, the Unknown record two levels down
C7_Witness ==
    /\ pc = "converted"
    /\ node = LatexGroupNode(BraceDelimiters, <<LatexMathNode(<<LatexNode>>)>>)
    /\ converted.py = "dict"
    /\ converted.v["children"].v[1].v["nodelist"].v[1].v["type"].v
          = <<"U", "n", "k", "n", "o", "w", "n", ";">> \o StrOfType(LatexNode)

\* decoding of backslash escapes: \n, \t, \r to the control character, any
\* other escaped character to itself
RECURSIVE Unescape(_)
Unescape(s) ==
    IF s = <<>> THEN <<>>
    ELSE IF Head(s) = "\\" /\ Len(s) >= 2
    THEN <<CASE s[2] = "n" -> "\n" [] s[2] = "t" -> "\t" [] s[2] = "r" -> "\r"
             [] OTHER -> s[2]>> \o Unescape(SubSeq(s, 3, Len(s)))
    ELSE <<Head(s)>> \o Unescape(Tail(s))

\* C8: the escaped text of a Chars node decodes back to exactly its raw text,
\* and no other raw text has the same escaped form
C8_EscapingRoundTrip ==
    (Converted /\ node.py = "LatexCharsNode")
    => /\ converted.py = "str"
       /\ Unescape(converted.v) = node.v.chars.v
       /\ \A t \in Texts : t # node.v.chars.v => EscapedString(t) # converted.v

\* C8's case: the raw text ' \ LF (quoted with ", so the ' stays bare) has been
\* escaped to ' \\ \n
C8_Witness ==
    /\ pc = "converted"
    /\ node.py = "LatexCharsNode"
    /\ node.v.chars.v = <<"'", "\\", "\n">>
    /\ converted.v = <<"'", "\\", "\\", "\\", "n">>

\* C9: convert_node_to_dict(None) is None, and each args/children list of the
\* result is as long as the node's list, its i-th entry the conversion of the
\* node's i-th entry: an absent entry is None at the same index
C9_StructurePreserved ==
    (Converted /\ WellFormed(node))
    => /\ node.py = "NoneType" => converted.py = "NoneType"
       /\ \A p \in NodeLists(node) :
             /\ converted.py = "dict"
             /\ p[2] \in DOMAIN converted.v
             /\ Len(converted.v[p[2]].v) = Len(p[1].v)
             /\ \A i \in 1..Len(p[1].v) :
                   /\ PyEq(converted.v[p[2]].v[i], convert_node_to_dict(p[1].v[i]))
                   /\ p[1].v[i].py = "NoneType" <=> converted.v[p[2]].v[i].py = "NoneType"

\* C9's case: a Macro whose first argument is absent and whose second is text
\* has been converted, None first
C9_Witness ==
    /\ pc = "converted"
    /\ node = LatexMacroNode(CaptionS, ParsedMacroArgs(<<PyNone, LatexCharsNode(<<"a", "'">>)>>))
    /\ converted.v["args"].v = <<PyNone, PyStr(<<"a", "'">>)>>

\* every Group record in x carries its delimiters as one str
RECURSIVE GroupDelimitersAreStr(_)
GroupDelimitersAreStr(x) ==
    x.py = "dict" =>
        /\ PyEq(x.v["type"], PyStr(GroupNodeS)) => x.v["delimiters"].py = "str"
        /\ \A k \in DOMAIN x.v \cap {"args", "children", "nodelist"} :
              \A i \in 1..Len(x.v[k].v) : GroupDelimitersAreStr(x.v[k].v[i])

\* C10: every Group record the builder produces carries its delimiters as one
\* str, the str() of the source pair, so lint_table on any record the builder
\* returned ends at the gate with exactly ["Table environment not detected."]
C10_BuilderOutputNeverPassesGate ==
    (Converted /\ converted.py = "dict")
    => /\ GroupDelimitersAreStr(converted)
       /\ node.py = "LatexGroupNode" =>
             PyEq(converted.v["delimiters"], PyStr(StrOfPair(node.v.delimiters)))
       /\ pc \in {"converted", "gate", "returned"}
       /\ pc # "converted" => PyEq(table_data, converted)
       /\ pc = "returned" => warnings = <<MsgNotDetected>>

\* C10's case: the Group built from the table delimiters, with a center Group
\* and a caption below it, has been converted and turned away by lint_table
C10_Witness ==
    /\ pc = "returned"
    /\ node = TableNode
    /\ PyEq(Get(table_data, "type", PyNone), PyStr(GroupNodeS))
    /\ table_data.v["delimiters"].v = StrOfPair(TableDelimiters)
    /\ warnings = <<MsgNotDetected>>

====
